---- MODULE Spec2Model ----
(***************************************************************************)
(* A model of the Fabric peer (lib/peer.js): the connection table, the     *)
(* known-peers table, the listening socket and the typed message           *)
(* dispatcher.  Text (addresses, ids, payloads) is a sequence of           *)
(* one-character strings, so that split / join / JSON.parse are computed.  *)
(***************************************************************************)
EXTENDS Integers, Sequences, FiniteSets, TLC

(* ------------------------------ bounds --------------------------------- *)
MaxSockets == 2

(* frames written on a link between two peers and not yet delivered *)
MaxQueue == 2

(* ------------------------- protocol constants -------------------------- *)
P2P_IDENT_REQUEST == 1
P2P_IDENT_RESPONSE == 17
P2P_ROOT == 0
P2P_PING == 18
P2P_PONG == 19
P2P_INSTRUCTION == 32
P2P_STATE_COMMITTMENT == 50
P2P_STATE_CHANGE == 51
(* a type code outside the table above *)
UnknownType == 153

(* ------------------------------- text ---------------------------------- *)
RECURSIVE SplitAcc(_, _, _, _, _)
SplitAcc(s, sep, i, cur, parts) ==
  IF i > Len(s) THEN Append(parts, cur)
  ELSE IF s[i] = sep THEN SplitAcc(s, sep, i + 1, <<>>, Append(parts, cur))
  ELSE SplitAcc(s, sep, i + 1, Append(cur, s[i]), parts)

(* String.prototype.split(sep) *)
Split(s, sep) == SplitAcc(s, sep, 1, <<>>, <<>>)

RECURSIVE Join(_, _)
(* Array.prototype.join(sep) *)
Join(parts, sep) ==
  IF Len(parts) = 0 THEN <<>>
  ELSE IF Len(parts) = 1 THEN parts[1]
  ELSE parts[1] \o <<sep>> \o Join(Tail(parts), sep)

(* ------------------------------- JSON ---------------------------------- *)
Digits == {"0", "1"}
TxtNull == <<"n", "u", "l", "l">>
TxtTrue == <<"t", "r", "u", "e">>
TxtFalse == <<"f", "a", "l", "s", "e">>
TxtZero == <<"0">>
TxtOne == <<"1">>
TxtObj == <<"{", "\"", "a", "\"", ":", "1", "}">>
TxtBad == <<"n", "o", "t", " ", "j">>

JSONFail == [ok |-> FALSE, value |-> [t |-> "undefined", s |-> <<>>]]
JSONOk(t, s) == [ok |-> TRUE, value |-> [t |-> t, s |-> s]]

IsNumberText(x) ==
  /\ Len(x) >= 1
  /\ \A i \in 1..Len(x) : x[i] \in Digits
  /\ (Len(x) > 1 => x[1] # "0")

IsQuoted(x) ==
  /\ Len(x) >= 2
  /\ x[1] = "\""
  /\ x[Len(x)] = "\""
  /\ \A i \in 2..(Len(x) - 1) : x[i] # "\""

(* a scalar: null, true, false, a number or a string *)
ParseScalar(x) ==
  IF x = TxtNull THEN JSONOk("null", <<>>)
  ELSE IF x = TxtTrue THEN JSONOk("boolean", <<"1">>)
  ELSE IF x = TxtFalse THEN JSONOk("boolean", <<"0">>)
  ELSE IF IsNumberText(x) THEN JSONOk("number", x)
  ELSE IF IsQuoted(x) THEN JSONOk("string", SubSeq(x, 2, Len(x) - 1))
  ELSE JSONFail

(* JSON.parse over scalars and one-member objects {"k":scalar} *)
JSONParse(x) ==
  IF Len(x) >= 2 /\ x[1] = "{" /\ x[Len(x)] = "}"
  THEN LET inner == SubSeq(x, 2, Len(x) - 1)
           kv == Split(inner, ":")
       IN IF inner = <<>> THEN JSONOk("object", <<>>)
          ELSE IF Len(kv) = 2 /\ IsQuoted(kv[1]) /\ ParseScalar(kv[2]).ok
               THEN JSONOk("object", inner)
               ELSE JSONFail
  ELSE ParseScalar(x)

(* JSON.stringify of a parsed value *)
JSONStringify(v) ==
  IF v.t = "null" THEN TxtNull
  ELSE IF v.t = "boolean" THEN (IF v.s = <<"1">> THEN TxtTrue ELSE TxtFalse)
  ELSE IF v.t = "number" THEN v.s
  ELSE IF v.t = "string" THEN <<"\"">> \o v.s \o <<"\"">>
  ELSE <<"{">> \o v.s \o <<"}">>

(* JavaScript truthiness of a parsed value: if (changes) *)
Truthy(v) ==
  /\ v.t # "null"
  /\ v.t # "undefined"
  /\ ~(v.t = "boolean" /\ v.s = <<"0">>)
  /\ ~(v.t = "number" /\ \A i \in 1..Len(v.s) : v.s[i] = "0")
  /\ ~(v.t = "string" /\ v.s = <<>>)

(* ------------------------------ messages ------------------------------- *)
NoId == <<>>
Null == [null |-> TRUE]

(* Message.fromVector([type, data]) *)
fromVector(v) == [type |-> v[1], id |-> NoId, data |-> v[2]]

(* message.asRaw(): the frame on the wire *)
asRaw(m) == <<m.type, m.id, m.data>>

(* bytes that are no frame *)
Garbage == <<>>

(* Message.fromRaw(data): throws on anything that is no frame *)
fromRawThrows(raw) == Len(raw) # 3
fromRaw(raw) == [type |-> raw[1], id |-> raw[2], data |-> raw[3]]

(* Peer.prototype._parseMessage *)
_parseMessage(raw) == IF fromRawThrows(raw) THEN Null ELSE fromRaw(raw)

(* ------------------------------- nodes --------------------------------- *)
Nodes == {"A", "B"}

(* this.id: the digest of the hex encoding of the public key *)
Id(n) == <<"i", n>>

(* ids an arbitrary remote may carry in a message *)
RemoteIds == {<<"i", "X">>}

(* this.state, sent back on ROOT *)
State(n) == <<"s", n>>

(* key._sign(token) and the hex form of the signature *)
Sign(n, token) == <<"g", n>> \o token
Hex(bytes) == <<"h">> \o bytes
CHECKSIG == <<"C", "H", "E", "C", "K", "S", "I", "G">>
SIGN == <<"S", "I", "G", "N">>

(* addresses handed to the dial: "x:9", the colon-free "x", "::1:9" (the key
   under which a transport accepted from the IPv6 loopback is stored) and
   "x:" with an empty port *)
DialAddresses ==
  {<<"x", ":", "9">>, <<"x">>, <<":", ":", "1", ":", "9">>, <<"x", ":">>}

(* config.address:config.port, where a peer listens and where another peer
   of the model dials it *)
ListenAddress(n) == <<n, ":", "7">>
ListenAddresses == {ListenAddress(n) : n \in Nodes}
Listener(address) == CHOOSE n \in Nodes : ListenAddress(n) = address

(* socket.remotePort of the transport accepted for the dialed socket s *)
EphemeralPort(s) == <<"5", <<"1", "2", "3", "4", "5", "6", "7", "8", "9">>[s]>>

(* socket.connect(port, host, cb) throws on an empty port, before any
   connect attempt is started; the socket is left connecting *)
ConnectThrows(address) == Split(address, ":")[2] = <<>>

(* remote hosts and ports of accepted transports; "::1" is the IPv6 loopback *)
RemoteHosts == {<<"x">>, <<":", ":", "1">>}
RemotePorts == {<<"9">>}

(* ---------------------------- dispatcher ------------------------------- *)
Result(response, tbl, emits, threw) ==
  [response |-> response, peers |-> tbl, emits |-> emits, threw |-> threw]

Event(name, arg) == [name |-> name, arg |-> arg]

(* an answer that echoes the id of the request *)
HandleIdentRequest_Echo(n, message, tbl) ==
  Result(fromVector(<<P2P_IDENT_RESPONSE, message.data>>), tbl, <<>>, FALSE)

(* case P2P_IDENT_REQUEST *)
HandleIdentRequest(n, message, tbl) ==
  Result(fromVector(<<P2P_IDENT_RESPONSE, Id(n)>>), tbl, <<>>, FALSE)

(* names every plain object such as this.peers = {} inherits from
   Object.prototype, each a truthy value: "valueOf" stands for them
   (constructor, toString, __proto__, ...) *)
ObjectPrototypeKeys == {<<"v", "a", "l", "u", "e", "O", "f">>}

(* self.peers[key] is truthy: an {id} record stored under the key, or an
   inherited property *)
Has(tbl, key) == key \in DOMAIN tbl \/ key \in ObjectPrototypeKeys

(* a handler that does not register the local id *)
HandleIdentResponse_NotSelf(n, message, tbl) ==
  IF ~Has(tbl, message.data) /\ message.data # Id(n)
  THEN LET peer == [id |-> message.data]
       IN Result(Null, (message.data :> peer) @@ tbl, <<Event("peer", peer)>>, FALSE)
  ELSE Result(Null, tbl, <<>>, FALSE)

(* case P2P_IDENT_RESPONSE *)
HandleIdentResponse(n, message, tbl) ==
  IF ~Has(tbl, message.data)
  THEN LET peer == [id |-> message.data]
       IN Result(Null, (message.data :> peer) @@ tbl, <<Event("peer", peer)>>, FALSE)
  ELSE Result(Null, tbl, <<>>, FALSE)

(* a handler that sends a valid change back as a STATE_CHANGE *)
HandleStateChange_Relay(n, message, tbl) ==
  LET parsed == JSONParse(message.data)
  IN IF ~parsed.ok THEN Result(Null, tbl, <<>>, FALSE)
     ELSE IF Truthy(parsed.value)
          THEN Result(fromVector(<<P2P_STATE_CHANGE, message.data>>), tbl,
                      <<Event("changes", [value |-> parsed.value])>>, FALSE)
          ELSE Result(Null, tbl, <<>>, FALSE)

(* case P2P_STATE_CHANGE *)
HandleStateChange(n, message, tbl) ==
  LET parsed == JSONParse(message.data)
  IN IF ~parsed.ok THEN Result(Null, tbl, <<>>, FALSE)
     ELSE IF Truthy(parsed.value)
          THEN Result(Null, tbl, <<Event("changes", [value |-> parsed.value])>>, FALSE)
          ELSE Result(Null, tbl, <<>>, FALSE)

(* case P2P_ROOT *)
HandleRoot(n, message, tbl) ==
  Result(fromVector(<<P2P_STATE_COMMITTMENT, State(n)>>), tbl, <<>>, FALSE)

(* a PING answered only once some peer has identified itself *)
HandlePing_AfterHandshake(n, message, tbl) ==
  IF DOMAIN tbl = {} THEN Result(Null, tbl, <<>>, FALSE)
  ELSE Result(fromVector(<<P2P_PONG, message.id>>), tbl, <<>>, FALSE)

(* a PONG that carries the payload of the PING, not its id *)
HandlePing_Payload(n, message, tbl) ==
  Result(fromVector(<<P2P_PONG, message.data>>), tbl, <<>>, FALSE)

(* case P2P_PING *)
HandlePing(n, message, tbl) ==
  Result(fromVector(<<P2P_PONG, message.id>>), tbl, <<>>, FALSE)

(* a handler that signs only when the payload has exactly two tokens *)
HandleInstruction_TwoTokens(n, message, tbl) ==
  LET stack == Split(message.data, " ")
  IN IF Len(stack) = 2 /\ stack[2] = SIGN
     THEN LET signature == Sign(n, stack[1])
              script == Join(<<Hex(signature), CHECKSIG>>, " ")
          IN Result(fromVector(<<P2P_INSTRUCTION, script>>), tbl, <<>>, FALSE)
     ELSE Result(Null, tbl, <<>>, FALSE)

(* case P2P_INSTRUCTION *)
HandleInstruction(n, message, tbl) ==
  LET stack == Split(message.data, " ")
  IN IF Len(stack) >= 2 /\ stack[2] = SIGN
     THEN LET signature == Sign(n, stack[1])
              script == Join(<<Hex(signature), CHECKSIG>>, " ")
          IN Result(fromVector(<<P2P_INSTRUCTION, script>>), tbl, <<>>, FALSE)
     ELSE Result(Null, tbl, <<>>, FALSE)

(* a dispatcher that sends a message of an unhandled type back *)
_handleMessage_EchoUnhandled(n, message, tbl) ==
  IF message = Null THEN Result(Null, tbl, <<>>, FALSE)
  ELSE CASE message.type = P2P_IDENT_REQUEST -> HandleIdentRequest(n, message, tbl)
         [] message.type = P2P_IDENT_RESPONSE -> HandleIdentResponse(n, message, tbl)
         [] message.type = P2P_STATE_CHANGE -> HandleStateChange(n, message, tbl)
         [] message.type = P2P_ROOT -> HandleRoot(n, message, tbl)
         [] message.type = P2P_PING -> HandlePing(n, message, tbl)
         [] message.type = P2P_INSTRUCTION -> HandleInstruction(n, message, tbl)
         [] OTHER -> Result(message, tbl, <<>>, FALSE)

(* Peer.prototype._handleMessage *)
_handleMessage(n, message, tbl) ==
  IF message = Null THEN Result(Null, tbl, <<>>, FALSE)
  ELSE CASE message.type = P2P_IDENT_REQUEST -> HandleIdentRequest(n, message, tbl)
         [] message.type = P2P_IDENT_RESPONSE -> HandleIdentResponse(n, message, tbl)
         [] message.type = P2P_STATE_CHANGE -> HandleStateChange(n, message, tbl)
         [] message.type = P2P_ROOT -> HandleRoot(n, message, tbl)
         [] message.type = P2P_PING -> HandlePing(n, message, tbl)
         [] message.type = P2P_INSTRUCTION -> HandleInstruction(n, message, tbl)
         [] OTHER -> Result(Null, tbl, <<>>, FALSE)

(* --------------------- what a remote may send -------------------------- *)
Msg(type, id, data) == [type |-> type, id |-> id, data |-> data]

RemoteMessages ==
  {Msg(P2P_IDENT_REQUEST, NoId, i) : i \in RemoteIds \cup {Id("A")}}
    \cup {Msg(P2P_IDENT_RESPONSE, NoId, i) : i \in RemoteIds \cup ObjectPrototypeKeys}
    \cup {Msg(P2P_STATE_CHANGE, NoId, t) : t \in {TxtObj, TxtNull, TxtZero, TxtBad}}
    \cup {Msg(P2P_ROOT, NoId, <<>>)}
    \cup {Msg(P2P_PING, i, <<>>) : i \in {<<"p">>, <<"q">>}}
    \cup {Msg(P2P_INSTRUCTION, NoId, t) :
            t \in {<<"m", " ">> \o SIGN, <<"m", " ", "A">>, <<"m">>, <<>>,
                   <<"m", " ">> \o SIGN \o <<" ", "z">>}}
    \cup {Msg(t, NoId, <<>>) : t \in {UnknownType, P2P_PONG}}

RemoteFrames == {asRaw(m) : m \in RemoteMessages} \cup {Garbage}

(* broadcast(message): a string, or a value that is stringified *)
BroadcastInputs ==
  {[str |-> TRUE, text |-> TxtObj, value |-> JSONFail.value],
   [str |-> FALSE, text |-> <<>>, value |-> JSONParse(TxtObj).value]}

(* ------------------------------- state --------------------------------- *)
VARIABLES
  connections,  \* connections[n]: address -> socket (index into sockets)
  peers,        \* peers[n]: id -> {id}
  server,       \* server[n]: this.server, the net.Server made by listen()
  sockets,      \* every net.Socket dialed or accepted, with the flags the code reads
  wire,         \* wire[s]: for a socket between two peers, its other end and
                \* the frames it wrote that the other end has not yet received
  last          \* the last operation or handler run, and what it did

vars == <<connections, peers, server, sockets, wire, last>>

NoSocket == 0

(* a net.Server: its state and the ready events emitted for it;
   "none" while this.server is unset *)
Server(state, ready) == [state |-> state, ready |-> ready]

Socket(n, address, initiator) ==
  [owner |-> n, address |-> address, initiator |-> initiator,
   connecting |-> initiator, hadError |-> FALSE, destroyed |-> FALSE,
   ended |-> FALSE]

Write(s, raw) == [sock |-> s, raw |-> raw]

Last(op, n, s, address, raw, ret, emits, writes, threw) ==
  [op |-> op, node |-> n, sock |-> s, address |-> address, raw |-> raw,
   ret |-> ret, emits |-> emits, writes |-> writes, threw |-> threw]

Init ==
  /\ connections = [n \in Nodes |-> <<>>]
  /\ peers = [n \in Nodes |-> <<>>]
  /\ server = [n \in Nodes |-> Server("none", 0)]
  /\ sockets = <<>>
  /\ wire = <<>>
  /\ last = Last("init", "A", NoSocket, <<>>, <<>>, NoSocket, <<>>, <<>>, FALSE)

(* ------------------------------ helpers -------------------------------- *)
(* a socket dialed to a peer of the model, before that peer accepted it *)
Unlinked == [peer |-> NoSocket, out |-> <<>>]

(* socket.write(raw) on each socket of writes: a frame written on an open
   socket between two peers is in flight to the other end *)
RECURSIVE Carry(_, _)
Carry(w, writes) ==
  IF writes = <<>> THEN w
  ELSE LET x == Head(writes)
           sent == x.sock \in DOMAIN w /\ ~sockets[x.sock].destroyed
                     /\ ~sockets[x.sock].ended
       IN Carry(IF sent THEN [w EXCEPT ![x.sock].out = Append(@, x.raw)] ELSE w,
                Tail(writes))

Room(w) == \A s \in DOMAIN w : Len(w[s].out) <= MaxQueue

(* the data event of a socket between two peers carries the oldest frame the
   other end wrote *)
Arrives(s, raw) ==
  s \in DOMAIN wire
    => /\ wire[s].peer # NoSocket
       /\ wire[wire[s].peer].out # <<>>
       /\ raw = Head(wire[wire[s].peer].out)

Taken(s) ==
  IF s \in DOMAIN wire THEN [wire EXCEPT ![wire[s].peer].out = Tail(@)] ELSE wire

(* a connect to a peer of the model completes when that peer listens *)
Reachable(s) ==
  s \in DOMAIN wire
    => \/ wire[s].peer # NoSocket
       \/ server[Listener(sockets[s].address)].state = "listening"

Indices == [i \in 1..Len(sockets) |-> i]

(* the sockets that are values of n's connection table *)
InTable(n, s) == \E a \in DOMAIN connections[n] : connections[n][a] = s

(* this.server is set *)
HasServer(n) == server[n].state # "none"

Listening(n) == server[n].state = "listening"


(* --------------------------- Peer.prototype._connect ------------------- *)
(* a dial that does not look the address up in the table *)
Connect_NoLookup(n, address) ==
  LET parts == Split(address, ":")
      new == Len(sockets) + 1
  IN IF Len(parts) # 2
     THEN /\ last' = Last("connect", n, NoSocket, address, <<>>, NoSocket, <<>>, <<>>, FALSE)
          /\ UNCHANGED <<connections, peers, server, sockets, wire>>
     ELSE /\ Len(sockets) < MaxSockets
          /\ sockets' = Append(sockets, Socket(n, address, TRUE))
          /\ connections' = [connections EXCEPT ![n] = (address :> new) @@ @]
          /\ wire' = IF address \in ListenAddresses THEN (new :> Unlinked) @@ wire
                     ELSE wire
          /\ last' = Last("connect", n, new, address, <<>>, new, <<>>, <<>>, FALSE)
          /\ UNCHANGED <<peers, server>>

(* a dial that tries again when the entry it finds has had an error *)
Connect_RetryErrored(n, address) ==
  LET parts == Split(address, ":")
      known == DOMAIN connections[n]
      new == Len(sockets) + 1
  IN IF Len(parts) # 2
     THEN /\ last' = Last("connect", n, NoSocket, address, <<>>, NoSocket, <<>>, <<>>, FALSE)
          /\ UNCHANGED <<connections, peers, server, sockets, wire>>
     ELSE IF address \in known /\ ~sockets[connections[n][address]].hadError
     THEN /\ last' = Last("connect", n, NoSocket, address, <<>>, connections[n][address],
                          <<>>, <<>>, FALSE)
          /\ UNCHANGED <<connections, peers, server, sockets, wire>>
     ELSE /\ Len(sockets) < MaxSockets
          /\ sockets' = Append(sockets, Socket(n, address, TRUE))
          /\ connections' = [connections EXCEPT ![n] = (address :> new) @@ @]
          /\ wire' = IF address \in ListenAddresses THEN (new :> Unlinked) @@ wire
                     ELSE wire
          /\ last' = Last("connect", n, new, address, <<>>, new, <<>>, <<>>, FALSE)
          /\ UNCHANGED <<peers, server>>

(* the dial: the address is valid when it splits into two parts, empty or
   not; a new socket is stored in the table before socket.connect is called,
   and what socket.connect throws is caught and logged *)
Connect(n, address) ==
  LET parts == Split(address, ":")
      known == DOMAIN connections[n]
      new == Len(sockets) + 1
  IN IF Len(parts) # 2
     THEN /\ last' = Last("connect", n, NoSocket, address, <<>>, NoSocket, <<>>, <<>>, FALSE)
          /\ UNCHANGED <<connections, peers, server, sockets, wire>>
     ELSE IF address \in known
     THEN /\ last' = Last("connect", n, NoSocket, address, <<>>, connections[n][address],
                          <<>>, <<>>, FALSE)
          /\ UNCHANGED <<connections, peers, server, sockets, wire>>
     ELSE /\ Len(sockets) < MaxSockets
          /\ sockets' = Append(sockets, Socket(n, address, TRUE))
          /\ connections' = [connections EXCEPT ![n] = (address :> new) @@ @]
          /\ wire' = IF address \in ListenAddresses THEN (new :> Unlinked) @@ wire
                     ELSE wire
          /\ last' = Last("connect", n, new, address, <<>>, new, <<>>, <<>>, FALSE)
          /\ UNCHANGED <<peers, server>>

(* the callback of socket.connect: the connect completed *)
ConnectOk(s) ==
  LET sock == sockets[s]
      n == sock.owner
      message == fromVector(<<P2P_IDENT_REQUEST, Id(n)>>)
      writes == <<Write(connections[n][sock.address], asRaw(message))>>
  IN /\ sock.initiator
     /\ sock.connecting
     /\ ~sock.destroyed
     /\ ~ConnectThrows(sock.address)
     /\ Reachable(s)
     /\ sockets' = [sockets EXCEPT ![s].connecting = FALSE]
     /\ wire' = Carry(wire, writes)
     /\ Room(wire')
     /\ last' = Last("connected", n, s, sock.address, <<>>, NoSocket,
                     <<Event("connection",
                             [address |-> sock.address, status |-> "handshake",
                              initiator |-> TRUE])>>,
                     writes, FALSE)
     /\ UNCHANGED <<connections, peers, server>>

(* an error handler that drops the errored address from the table *)
SocketError_Remove(s) ==
  LET sock == sockets[s]
      n == sock.owner
  IN /\ ~sock.destroyed
     /\ ~(sock.initiator /\ ConnectThrows(sock.address))
     /\ sockets' = [sockets EXCEPT ![s].hadError = TRUE, ![s].connecting = FALSE,
                                   ![s].destroyed = TRUE]
     /\ connections' = [connections EXCEPT
                          ![n] = [a \in DOMAIN @ \ {sock.address} |-> @[a]]]
     /\ last' = Last("error", n, s, sock.address, <<>>, NoSocket, <<>>, <<>>,
                     ~sock.initiator)
     /\ UNCHANGED <<peers, server, wire>>

(* an 'error' event of the transport: a dialed socket logs it, an accepted
   socket has no listener for it *)
SocketError(s) ==
  LET sock == sockets[s]
  IN /\ ~sock.destroyed
     /\ ~(sock.initiator /\ ConnectThrows(sock.address))
     /\ sockets' = [sockets EXCEPT ![s].hadError = TRUE, ![s].connecting = FALSE,
                                   ![s].destroyed = TRUE]
     /\ last' = Last("error", sock.owner, s, sock.address, <<>>, NoSocket, <<>>, <<>>,
                     ~sock.initiator)
     /\ UNCHANGED <<connections, peers, server, wire>>

(* a handler that destroys the connection whenever there is nothing to reply *)
OnData_DestroyWithoutReply(s, raw) ==
  LET sock == sockets[s]
      n == sock.owner
      message == _parseMessage(raw)
      r == _handleMessage(n, message, peers[n])
      writes == IF r.response # Null THEN <<Write(s, asRaw(r.response))>> ELSE <<>>
  IN /\ ~sock.connecting
     /\ ~sock.destroyed
     /\ ~sock.ended
     /\ Arrives(s, raw)
     /\ wire' = Carry(Taken(s), writes)
     /\ Room(wire')
     /\ peers' = [peers EXCEPT ![n] = r.peers]
     /\ sockets' = IF r.response = Null THEN [sockets EXCEPT ![s].destroyed = TRUE]
                   ELSE sockets
     /\ last' = Last("data", n, s, sock.address, raw, NoSocket, r.emits, writes, r.threw)
     /\ UNCHANGED <<connections, server>>

(* a handler that keeps the connection after a decode failure *)
OnData_NoDestroy(s, raw) ==
  LET sock == sockets[s]
      n == sock.owner
      message == _parseMessage(raw)
      r == _handleMessage(n, message, peers[n])
      writes == IF r.response # Null THEN <<Write(s, asRaw(r.response))>> ELSE <<>>
  IN /\ ~sock.connecting
     /\ ~sock.destroyed
     /\ ~sock.ended
     /\ Arrives(s, raw)
     /\ wire' = Carry(Taken(s), writes)
     /\ Room(wire')
     /\ peers' = [peers EXCEPT ![n] = r.peers]
     /\ sockets' = sockets
     /\ last' = Last("data", n, s, sock.address, raw, NoSocket, r.emits, writes, r.threw)
     /\ UNCHANGED <<connections, server>>

(* a handler that writes the reply on the table's entry for the address *)
OnData_ReplyViaTable(s, raw) ==
  LET sock == sockets[s]
      n == sock.owner
      message == _parseMessage(raw)
      r == _handleMessage(n, message, peers[n])
      writes == IF r.response # Null
                THEN <<Write(connections[n][sock.address], asRaw(r.response))>>
                ELSE <<>>
  IN /\ ~sock.connecting
     /\ ~sock.destroyed
     /\ ~sock.ended
     /\ Arrives(s, raw)
     /\ wire' = Carry(Taken(s), writes)
     /\ Room(wire')
     /\ peers' = [peers EXCEPT ![n] = r.peers]
     /\ sockets' = IF message = Null THEN [sockets EXCEPT ![s].destroyed = TRUE]
                   ELSE sockets
     /\ last' = Last("data", n, s, sock.address, raw, NoSocket, r.emits, writes, r.threw)
     /\ UNCHANGED <<connections, server>>

(* the 'data' handler, the same code on a dialed and on an accepted socket *)
OnData(s, raw) ==
  LET sock == sockets[s]
      n == sock.owner
      message == _parseMessage(raw)
      r == _handleMessage(n, message, peers[n])
      writes == IF r.response # Null THEN <<Write(s, asRaw(r.response))>> ELSE <<>>
  IN /\ ~sock.connecting
     /\ ~sock.destroyed
     /\ ~sock.ended
     /\ Arrives(s, raw)
     /\ wire' = Carry(Taken(s), writes)
     /\ Room(wire')
     /\ peers' = [peers EXCEPT ![n] = r.peers]
     /\ sockets' = IF message = Null THEN [sockets EXCEPT ![s].destroyed = TRUE]
                   ELSE sockets
     /\ last' = Last("data", n, s, sock.address, raw, NoSocket, r.emits, writes, r.threw)
     /\ UNCHANGED <<connections, server>>

DialedData(s, raw) == sockets[s].initiator /\ OnData(s, raw)

AcceptedData(s, raw) == ~sockets[s].initiator /\ OnData(s, raw)

(* end-of-stream: the accepted socket's 'end' handler emits part *)
SocketEnd(s) ==
  LET sock == sockets[s]
  IN /\ ~sock.connecting
     /\ ~sock.destroyed
     /\ ~sock.ended
     /\ sockets' = [sockets EXCEPT ![s].ended = TRUE]
     /\ last' = Last("end", sock.owner, s, sock.address, <<>>, NoSocket,
                     IF sock.initiator THEN <<>> ELSE <<Event("part", [address |-> sock.address])>>,
                     <<>>, FALSE)
     /\ UNCHANGED <<connections, peers, server, wire>>

(* ----------------------- Peer.prototype._handleConnection -------------- *)
(* an accept that keeps the entry the table already has for the address *)
Accept_KeepPrior(n, host, port, from) ==
  LET address == Join(<<host, port>>, ":")
      new == Len(sockets) + 1
  IN /\ Listening(n)
     /\ Len(sockets) < MaxSockets
     /\ sockets' = Append(sockets, Socket(n, address, FALSE))
     /\ wire' = IF from = NoSocket THEN wire
                ELSE (new :> [peer |-> from, out |-> <<>>])
                       @@ [wire EXCEPT ![from].peer = new]
     /\ connections' = [connections EXCEPT ![n] = @ @@ (address :> new)]
     /\ last' = Last("accept", n, new, address, <<>>, NoSocket,
                     <<Event("connection",
                             [address |-> address, status |-> "connected",
                              initiator |-> FALSE])>>,
                     <<>>, FALSE)
     /\ UNCHANGED <<peers, server>>

(* the server's 'connection' event for a transport from host:port; from is
   the dialed socket at the other end when that is a socket of the model *)
Accept(n, host, port, from) ==
  LET address == Join(<<host, port>>, ":")
      new == Len(sockets) + 1
  IN /\ Listening(n)
     /\ Len(sockets) < MaxSockets
     /\ sockets' = Append(sockets, Socket(n, address, FALSE))
     /\ wire' = IF from = NoSocket THEN wire
                ELSE (new :> [peer |-> from, out |-> <<>>])
                       @@ [wire EXCEPT ![from].peer = new]
     /\ connections' = [connections EXCEPT ![n] = (address :> new) @@ @]
     /\ last' = Last("accept", n, new, address, <<>>, NoSocket,
                     <<Event("connection",
                             [address |-> address, status |-> "connected",
                              initiator |-> FALSE])>>,
                     <<>>, FALSE)
     /\ UNCHANGED <<peers, server>>

(* --------------------------- Peer.prototype.broadcast ------------------ *)
(* a selection that forgets the connecting flag *)
Selected_IgnoreConnecting(n, s) ==
  /\ InTable(n, s)
  /\ ~sockets[s].hadError

(* a selection that does not look at the error flag *)
Selected_IgnoreErrored(n, s) ==
  /\ InTable(n, s)
  /\ ~sockets[s].connecting

(* a selection that leaves out ended and destroyed connections *)
Selected_SkipDead(n, s) ==
  /\ InTable(n, s)
  /\ ~sockets[s].connecting
  /\ ~sockets[s].hadError
  /\ ~sockets[s].destroyed
  /\ ~sockets[s].ended

(* broadcast's filter: !conn.connecting && !conn._hadError *)
Selected(n, s) ==
  /\ InTable(n, s)
  /\ ~sockets[s].connecting
  /\ ~sockets[s].hadError

BroadcastWrites(n, message) ==
  LET targets == SelectSeq(Indices, LAMBDA s : Selected(n, s))
      msg == fromVector(<<P2P_STATE_CHANGE, message>>)
  IN [i \in 1..Len(targets) |-> Write(targets[i], asRaw(msg))]

Broadcast(n, input) ==
  LET message == IF input.str THEN input.text ELSE JSONStringify(input.value)
  IN /\ wire' = Carry(wire, BroadcastWrites(n, message))
     /\ Room(wire')
     /\ last' = Last("broadcast", n, NoSocket, <<>>, asRaw(fromVector(<<P2P_STATE_CHANGE, message>>)),
                     NoSocket, <<>>, BroadcastWrites(n, message), FALSE)
     /\ UNCHANGED <<connections, peers, server, sockets>>

(* ------------------- Peer.prototype.listen / start / stop -------------- *)
(* Peer.prototype.listen: called by start(); a new server, bound later *)
listen(n) == server' = [server EXCEPT ![n] = Server("binding", 0)]

(* a start that listens whether or not a server exists *)
Start_Always(n) ==
  /\ listen(n)
  /\ last' = Last("start", n, NoSocket, <<>>, <<>>, NoSocket, <<>>, <<>>, FALSE)
  /\ UNCHANGED <<connections, peers, sockets, wire>>

Start(n) ==
  /\ IF ~HasServer(n) THEN listen(n) ELSE UNCHANGED server
  /\ last' = Last("start", n, NoSocket, <<>>, <<>>, NoSocket, <<>>, <<>>, FALSE)
  /\ UNCHANGED <<connections, peers, sockets, wire>>

(* server.close() *)
Closed(srv) ==
  IF srv.state \in {"binding", "listening"} THEN [srv EXCEPT !.state = "closed"] ELSE srv

(* a stop that also destroys the peer's transports *)
Stop_DestroyConnections(n) ==
  /\ server' = [server EXCEPT ![n] = Closed(@)]
  /\ sockets' = [s \in 1..Len(sockets) |->
                   IF sockets[s].owner = n THEN [sockets[s] EXCEPT !.destroyed = TRUE]
                   ELSE sockets[s]]
  /\ last' = Last("stop", n, NoSocket, <<>>, <<>>, NoSocket, <<>>, <<>>, ~HasServer(n))
  /\ UNCHANGED <<connections, peers, wire>>

(* this.server.close(): a TypeError when there is no server. While the bind
   is pending (server.listen resolves config.address first and binds in a
   later turn of the event loop) the runtime decides what close() does to it:
   it cancels the bind, or it finds nothing to close and the bind goes on *)
Stop(n) ==
  /\ \/ server' = [server EXCEPT ![n] = Closed(@)]
     \/ server[n].state = "binding" /\ UNCHANGED server
  /\ last' = Last("stop", n, NoSocket, <<>>, <<>>, NoSocket, <<>>, <<>>, ~HasServer(n))
  /\ UNCHANGED <<connections, peers, sockets, wire>>

(* the callback of server.listen: the bind succeeded *)
BindOk(n) ==
  /\ server[n].state = "binding"
  /\ server' = [server EXCEPT ![n] = Server("listening", @.ready + 1)]
  /\ last' = Last("ready", n, NoSocket, <<>>, <<>>, NoSocket, <<Event("ready", [x |-> 0])>>,
                  <<>>, FALSE)
  /\ UNCHANGED <<connections, peers, sockets, wire>>

(* the bind failed: an 'error' event of the server, which has no listener *)
BindFail(n) ==
  /\ server[n].state = "binding"
  /\ server' = [server EXCEPT ![n].state = "failed"]
  /\ last' = Last("bindfail", n, NoSocket, <<>>, <<>>, NoSocket, <<>>, <<>>, TRUE)
  /\ UNCHANGED <<connections, peers, sockets, wire>>

(* --------------------------- specification ----------------------------- *)
(* one peer, A, and remotes that may send anything *)
Active == {"A"}

Next ==
  \/ \E n \in Active, a \in DialAddresses : Connect(n, a)
  \/ \E s \in 1..Len(sockets) : ConnectOk(s)
  \/ \E s \in 1..Len(sockets) : SocketError(s)
  \/ \E s \in 1..Len(sockets), raw \in RemoteFrames : DialedData(s, raw)
  \/ \E s \in 1..Len(sockets), raw \in RemoteFrames : AcceptedData(s, raw)
  \/ \E s \in 1..Len(sockets) : SocketEnd(s)
  \/ \E n \in Active, h \in RemoteHosts, p \in RemotePorts : Accept(n, h, p, NoSocket)
  \/ \E n \in Active, input \in BroadcastInputs : Broadcast(n, input)
  \/ \E n \in Active : Start(n)
  \/ \E n \in Active : Stop(n)
  \/ \E n \in Active : BindOk(n)
  \/ \E n \in Active : BindFail(n)

Spec == Init /\ [][Next]_vars

(* two peers, A and B, that dial each other or themselves; every frame a
   socket receives is one the other end wrote *)
(* the 'connection' event of the listening peer for the dialed socket s *)
AcceptPeer(s) ==
  /\ s \in DOMAIN wire
  /\ wire[s].peer = NoSocket
  /\ ~sockets[s].destroyed
  /\ Accept(Listener(sockets[s].address), <<sockets[s].owner>>, EphemeralPort(s), s)

(* the 'data' event of a socket between two peers *)
Deliver(s) ==
  /\ s \in DOMAIN wire
  /\ wire[s].peer # NoSocket
  /\ wire[wire[s].peer].out # <<>>
  /\ OnData(s, Head(wire[wire[s].peer].out))

NetBroadcastInputs == {[str |-> TRUE, text |-> TxtObj, value |-> JSONFail.value]}

NetNext ==
  \/ \E n \in Nodes : Start(n)
  \/ \E n \in Nodes : BindOk(n)
  \/ \E n \in Nodes, m \in Nodes : Connect(n, ListenAddress(m))
  \/ \E s \in 1..Len(sockets) : ConnectOk(s)
  \/ \E s \in 1..Len(sockets) : AcceptPeer(s)
  \/ \E s \in 1..Len(sockets) : Deliver(s)
  \/ \E n \in Nodes, input \in NetBroadcastInputs : Broadcast(n, input)

(* the event loop runs every pending callback: a bind, a connect, a
   'connection' event or a 'data' event that can happen does happen *)
SpecNet ==
  /\ Init
  /\ [][NetNext]_vars
  /\ WF_vars(\E n \in Nodes : BindOk(n))
  /\ WF_vars(\E s \in 1..Len(sockets) : ConnectOk(s))
  /\ WF_vars(\E s \in 1..Len(sockets) : AcceptPeer(s))
  /\ WF_vars(\E s \in 1..Len(sockets) : Deliver(s))

(* ------------------------------- claims -------------------------------- *)
(* the decoded message of the last data event *)
LastDecoded == ~fromRawThrows(last.raw)
LastMessage == fromRaw(last.raw)
LastIs(type) == last.op = "data" /\ LastDecoded /\ LastMessage.type = type

(* the frames the last step wrote on socket s *)
WritesTo(s) == {i \in DOMAIN last.writes : last.writes[i].sock = s}

(* C1 as stated: _connect(address) returns the existing Connection for every
   address that is already a key of the connection table, and does nothing else. *)
C1_DialReturnsEveryPresentEntry ==
  (last.op = "connect" /\ last.sock = NoSocket
     /\ last.address \in DOMAIN connections[last.node])
    => /\ last.ret = connections[last.node][last.address]
       /\ last.writes = <<>>
       /\ last.emits = <<>>

(* C1 amended: a dial of an address already in the table creates no transport,
   writes nothing, emits nothing and leaves every table as it was; it returns
   the existing Connection when the address splits on ':' into exactly two
   parts, and returns nothing otherwise. *)
C1_IdempotentDial ==
  [][(last'.op = "connect" /\ last'.address \in DOMAIN connections[last'.node])
       => /\ UNCHANGED <<connections, peers, server, sockets>>
          /\ last'.writes = <<>>
          /\ last'.emits = <<>>
          /\ last'.sock = NoSocket
          /\ last'.ret = IF Len(Split(last'.address, ":")) = 2
                         THEN connections[last'.node][last'.address]
                         ELSE NoSocket]_vars

(* C1 witness: a second dial of an address whose connect has not completed
   returned the handle of the first. *)
C1_Witness ==
  /\ last.op = "connect"
  /\ last.sock = NoSocket
  /\ last.ret # NoSocket
  /\ sockets[last.ret].connecting
  /\ connections[last.node][last.address] = last.ret

(* C2: a data event whose bytes do not decode destroys that connection,
   writes no reply and has no dispatcher effect: no event is emitted and the
   peers and connection tables are unchanged. *)
C2_FailFast ==
  [][(last'.op = "data" /\ fromRawThrows(last'.raw))
       => /\ sockets'[last'.sock].destroyed
          /\ last'.writes = <<>>
          /\ last'.emits = <<>>
          /\ UNCHANGED <<peers, connections, server>>]_vars

(* C2 witness: undecodable bytes have arrived; a dialed and an accepted
   connection are both destroyed without a transport error. *)
C2_Witness ==
  /\ last.op = "data"
  /\ fromRawThrows(last.raw)
  /\ \E s, t \in 1..Len(sockets) :
       /\ sockets[s].initiator /\ sockets[s].destroyed /\ ~sockets[s].hadError
       /\ ~sockets[t].initiator /\ sockets[t].destroyed /\ ~sockets[t].hadError

(* C3 as stated: broadcast writes exactly one STATE_CHANGE frame to each
   connection in the table at the time of the call. *)
C3_BroadcastWritesEveryEntry ==
  last.op = "broadcast"
    => \A s \in 1..Len(sockets) :
         Cardinality(WritesTo(s)) = IF InTable(last.node, s) THEN 1 ELSE 0

(* C3 amended: broadcast writes exactly one STATE_CHANGE frame, carrying the
   payload, to each connection in the table at the time of the call that is not
   connecting and has had no error, and no frame to any other connection. *)
C3_BroadcastWritesSelected ==
  last.op = "broadcast"
    => /\ \A s \in 1..Len(sockets) :
            Cardinality(WritesTo(s)) =
              IF InTable(last.node, s) /\ ~sockets[s].connecting /\ ~sockets[s].hadError
              THEN 1 ELSE 0
       /\ \A i \in DOMAIN last.writes :
            /\ last.writes[i].raw = last.raw
            /\ fromRaw(last.writes[i].raw).type = P2P_STATE_CHANGE
            /\ last.writes[i].sock \in 1..Len(sockets)

(* C3 witness: a broadcast wrote to a connection of the table while another
   transport, no longer in the table, got nothing. *)
C3_Witness ==
  /\ last.op = "broadcast"
  /\ Len(last.writes) = 1
  /\ Len(sockets) = 2
  /\ \E s \in 1..Len(sockets) : ~InTable(last.node, s) /\ ~sockets[s].hadError

(* C4 as stated: an IDENT_REQUEST yields exactly one IDENT_RESPONSE whose payload
   is the responder's id and never the id carried in the request. *)
C4_ReplyNeverRequestId ==
  LastIs(P2P_IDENT_REQUEST)
    => /\ Len(last.writes) = 1
       /\ last.writes[1].sock = last.sock
       /\ fromRaw(last.writes[1].raw).type = P2P_IDENT_RESPONSE
       /\ fromRaw(last.writes[1].raw).data = Id(last.node)
       /\ fromRaw(last.writes[1].raw).data # LastMessage.data

(* C4 amended: an IDENT_REQUEST yields exactly one reply, an IDENT_RESPONSE whose
   payload is the responder's own id whatever id the request carries, and the
   request's payload is recorded nowhere: the tables and transports are unchanged
   and no event is emitted. *)
C4_IdentRequestAnswered ==
  [][(last'.op = "data" /\ ~fromRawThrows(last'.raw)
        /\ fromRaw(last'.raw).type = P2P_IDENT_REQUEST)
       => /\ Len(last'.writes) = 1
          /\ last'.writes[1].sock = last'.sock
          /\ fromRaw(last'.writes[1].raw).type = P2P_IDENT_RESPONSE
          /\ fromRaw(last'.writes[1].raw).data = Id(last'.node)
          /\ last'.emits = <<>>
          /\ UNCHANGED <<peers, connections, server, sockets>>]_vars

(* C4 witness: a request carrying a remote id was answered with the local id. *)
C4_Witness ==
  /\ LastIs(P2P_IDENT_REQUEST)
  /\ LastMessage.data \in RemoteIds
  /\ Len(last.writes) = 1
  /\ fromRaw(last.writes[1].raw).data = Id(last.node)

C6_ChangesForEveryJSONValue ==
  (LastIs(P2P_STATE_CHANGE) /\ JSONParse(LastMessage.data).ok)
    => /\ last.emits = <<Event("changes", [value |-> JSONParse(LastMessage.data).value])>>
       /\ last.writes = <<>>

(* C7: a STATE_CHANGE whose payload is no JSON emits nothing and writes nothing,
   does not destroy the connection, which goes on receiving, and leaves the
   peers and connection tables unchanged. *)
C7_BadStateChangeDropped ==
  [][(last'.op = "data" /\ ~fromRawThrows(last'.raw)
        /\ fromRaw(last'.raw).type = P2P_STATE_CHANGE
        /\ ~JSONParse(fromRaw(last'.raw).data).ok)
       => /\ last'.emits = <<>>
          /\ last'.writes = <<>>
          /\ ~sockets'[last'.sock].destroyed
          /\ UNCHANGED <<peers, connections, server, sockets>>]_vars

(* C7 witness: a STATE_CHANGE with the payload "not j" has been handled and
   the connection is still open. *)
C7_Witness ==
  /\ LastIs(P2P_STATE_CHANGE)
  /\ LastMessage.data = TxtBad
  /\ ~JSONParse(TxtBad).ok
  /\ ~sockets[last.sock].destroyed

(* C9: start() makes and binds one server when none exists and changes nothing
   when one exists, so that start() calls in a row make one listening socket
   and one bind, and at most one ready event is emitted. *)
C9_StartIdempotent ==
  /\ [](\A n \in Nodes : server[n].ready <= 1)
  /\ [][last'.op = "start"
          => /\ last'.emits = <<>>
             /\ UNCHANGED <<connections, peers, sockets>>
             /\ IF server[last'.node].state = "none"
                THEN server' = [server EXCEPT ![last'.node] = Server("binding", 0)]
                ELSE UNCHANGED server]_vars

(* C9 witness: start() was called with the server already listening, its one
   ready event emitted. *)
C9_Witness ==
  /\ last.op = "start"
  /\ server[last.node] = Server("listening", 1)

(* C10: stop() changes only the listening socket: the connection table, the
   peers table and every transport are as before, nothing is written or
   emitted; data events and broadcasts go on afterwards. *)
C10_StopClosesOnlyServer ==
  [][last'.op = "stop"
       => /\ UNCHANGED <<connections, peers, sockets>>
          /\ last'.emits = <<>>
          /\ last'.writes = <<>>
          /\ server'[last'.node] \in {server[last'.node], Closed(server[last'.node])}
          /\ server'[last'.node].state # "listening"
          /\ \A n \in Nodes : n # last'.node => server'[n] = server[n]]_vars

(* C10 witness: with the server closed by stop(), a message that arrived on
   an existing connection was answered on it. *)
C10_Witness ==
  /\ server[last.node].state = "closed"
  /\ last.op = "data"
  /\ Len(last.writes) = 1
  /\ last.writes[1].sock = last.sock
  /\ ~sockets[last.sock].destroyed

(* the parts of a dialed address are two and both non-empty *)
TwoNonEmptyParts(address) ==
  LET parts == Split(address, ":")
  IN Len(parts) = 2 /\ parts[1] # <<>> /\ parts[2] # <<>>

(* C11: a dial of an address that does not split on ":" into exactly two
   non-empty parts adds no entry to the connection table, creates no transport
   and emits no event. *)
C11_InvalidDialNoEffect ==
  [][(last'.op = "connect" /\ ~TwoNonEmptyParts(last'.address))
       => /\ UNCHANGED <<connections, sockets, peers, server>>
          /\ last'.emits = <<>>
          /\ last'.writes = <<>>]_vars

(* C12: start(), stop(), the dial, broadcast() and the handling of an inbound
   data event all complete without a propagated exception, in every
   reachable state. *)
C12_NoOperationThrows ==
  last.op \in {"start", "stop", "connect", "broadcast", "data"} => ~last.threw

(* the handshake of a dial from peer n to peer m has run to completion: the
   IDENT_RESPONSE of m has just been handled on n's dialed connection *)
HandshakeDone(n, m) ==
  /\ LastIs(P2P_IDENT_RESPONSE)
  /\ last.node = n
  /\ sockets[last.sock].initiator
  /\ last.address = ListenAddress(m)
  /\ LastMessage.data = Id(m)

(* C13: when A dials B and the IDENT_REQUEST/IDENT_RESPONSE exchange has run
   to completion, then eventually A's peers table contains B's id and B's
   peers table contains A's id. *)
C13_HandshakeMutual ==
  HandshakeDone("A", "B")
    ~> (Id("B") \in DOMAIN peers["A"] /\ Id("A") \in DOMAIN peers["B"])

(* C14: broadcast writes a STATE_CHANGE frame to a connection of the table
   if and only if that connection is not mid-connect and has had no transport
   error; a connection that is connecting or errored receives no frame. *)
C14_BroadcastTargets ==
  last.op = "broadcast"
    => \A s \in 1..Len(sockets) :
         InTable(last.node, s)
           => ((\E i \in DOMAIN last.writes :
                  /\ last.writes[i].sock = s
                  /\ fromRaw(last.writes[i].raw).type = P2P_STATE_CHANGE)
               <=> (~sockets[s].connecting /\ ~sockets[s].hadError))

(* C14 witness: a broadcast with two connections in the table, one that has
   had a transport error and got no frame and one that got the frame. *)
C14_Witness ==
  /\ last.op = "broadcast"
  /\ \E s, t \in 1..Len(sockets) :
       /\ InTable(last.node, s) /\ sockets[s].hadError /\ WritesTo(s) = {}
       /\ InTable(last.node, t) /\ WritesTo(t) # {}

(* C15: a newly dialed address is in the connection table at once, while
   the transport is still connecting; nothing is written on a transport that
   is connecting; when the connect completes exactly one connection event
   {address, "handshake", initiator true} is emitted and exactly one frame is
   written, an IDENT_REQUEST carrying the local id, on the dialed transport;
   no IDENT_REQUEST is written on an accepted transport. *)
C15_OutboundConnectSequence ==
  /\ (last.op = "connect" /\ last.sock # NoSocket)
       => /\ connections[last.node][last.address] = last.sock
          /\ sockets[last.sock].connecting
          /\ last.writes = <<>>
          /\ last.emits = <<>>
  /\ last.op = "connected"
       => /\ last.emits = <<Event("connection",
                                  [address |-> last.address, status |-> "handshake",
                                   initiator |-> TRUE])>>
          /\ last.writes = <<Write(last.sock,
                                   asRaw(fromVector(<<P2P_IDENT_REQUEST, Id(last.node)>>)))>>
  /\ \A i \in DOMAIN last.writes :
       /\ ~sockets[last.writes[i].sock].connecting
       /\ fromRaw(last.writes[i].raw).type = P2P_IDENT_REQUEST
            => sockets[last.writes[i].sock].initiator

(* C16: the acceptance of a transport emits exactly one connection event
   {address, "connected", initiator false} with address = remoteHost:remotePort,
   at once and without any message having been handled; the transport is then
   the table's entry for that address, whatever entry was there before, and
   every other entry, the peers table and the other transports are as before. *)
C16_InboundAcceptance ==
  [][last'.op = "accept"
       => LET n == last'.node
              a == last'.address
              new == last'.sock
          IN /\ \E h \in RemoteHosts, p \in RemotePorts : a = h \o <<":">> \o p
             /\ last'.emits = <<Event("connection",
                                      [address |-> a, status |-> "connected",
                                       initiator |-> FALSE])>>
             /\ last'.writes = <<>>
             /\ new = Len(sockets) + 1
             /\ sockets' = Append(sockets, Socket(n, a, FALSE))
             /\ DOMAIN connections'[n] = DOMAIN connections[n] \cup {a}
             /\ connections'[n][a] = new
             /\ \A b \in DOMAIN connections[n] :
                  b # a => connections'[n][b] = connections[n][b]
             /\ UNCHANGED <<peers, server>>]_vars

(* C16 witness: a transport was accepted from an address that was already a
   key of the table; the earlier transport is no longer in the table. *)
C16_Witness ==
  /\ last.op = "accept"
  /\ connections[last.node][last.address] = last.sock
  /\ \E s \in 1..Len(sockets) :
       /\ s # last.sock
       /\ sockets[s].address = last.address
       /\ ~InTable(last.node, s)

(* C17: an IDENT_RESPONSE carrying an id that is not yet in the peers table
   adds the record {id} under that id and emits exactly one peer event; one
   carrying an id already in the table changes nothing and emits nothing; in
   both cases nothing is written, and no step removes an id from a peers
   table. *)
C17_IdentResponseIdempotent ==
  [][/\ \A n \in Nodes : DOMAIN peers[n] \subseteq DOMAIN peers'[n]
     /\ (last'.op = "data" /\ ~fromRawThrows(last'.raw)
           /\ fromRaw(last'.raw).type = P2P_IDENT_RESPONSE)
          => LET n == last'.node
                 id == fromRaw(last'.raw).data
             IN /\ IF id \notin DOMAIN peers[n]
                   THEN /\ peers' = [peers EXCEPT ![n] = (id :> [id |-> id]) @@ @]
                        /\ last'.emits = <<Event("peer", [id |-> id])>>
                   ELSE /\ UNCHANGED peers
                        /\ last'.emits = <<>>
                /\ last'.writes = <<>>]_vars

(* C18: no step removes a key from a connection table; a transport error
   changes no table, creates no transport, starts no connect, writes and emits
   nothing; the end-of-stream of an accepted connection emits exactly one part
   event carrying its address and changes no table. *)
C18_TableNeverShrinks ==
  [][/\ \A n \in Nodes : DOMAIN connections[n] \subseteq DOMAIN connections'[n]
     /\ last'.op = "error"
          => /\ UNCHANGED connections
             /\ Len(sockets') = Len(sockets)
             /\ \A s \in 1..Len(sockets) : sockets'[s].connecting => sockets[s].connecting
             /\ last'.writes = <<>>
             /\ last'.emits = <<>>
     /\ (last'.op = "end" /\ ~sockets[last'.sock].initiator)
          => /\ UNCHANGED connections
             /\ last'.emits = <<Event("part", [address |-> last'.address])>>]_vars

(* C18 witness: the table still holds a dialed connection that had a
   transport error and an accepted connection whose end-of-stream has just
   emitted part. *)
C18_Witness ==
  /\ last.op = "end"
  /\ Len(last.emits) = 1
  /\ InTable(last.node, last.sock)
  /\ \E s \in 1..Len(sockets) :
       /\ sockets[s].initiator /\ sockets[s].hadError
       /\ InTable(last.node, s)

(* the reply a peer with the identity and state of n and no history at all
   gives to a message *)
FreshReply(n, message) == _handleMessage(n, message, <<>>).response

(* C19: the reply to a decoded message is a function of the message and of
   the local identity and state alone: on every connection, dialed or
   accepted, and after every history, it is the reply a peer with the same
   identity and state and no history gives, written on the connection the
   message arrived on. *)
C19_StatelessDispatch ==
  (last.op = "data" /\ LastDecoded)
    => last.writes =
         IF FreshReply(last.node, LastMessage) = Null THEN <<>>
         ELSE <<Write(last.sock, asRaw(FreshReply(last.node, LastMessage)))>>

(* C19 witness: a PING was answered on an accepted connection by a peer that
   has registered a remote id on some connection before. *)
C19_Witness ==
  /\ LastIs(P2P_PING)
  /\ ~sockets[last.sock].initiator
  /\ DOMAIN peers[last.node] # {}
  /\ Len(last.writes) = 1

(* the types _handleMessage has a case for *)
HandledTypes ==
  {P2P_IDENT_REQUEST, P2P_IDENT_RESPONSE, P2P_STATE_CHANGE, P2P_ROOT, P2P_PING,
   P2P_INSTRUCTION}

(* C20: a decoded message of a type the dispatcher has no case for is
   answered by nothing and emits nothing, leaves the peers table, the
   connection table and every transport as they were, the connection not
   destroyed; a later message on the same connection is dispatched. *)
C20_UnknownTypeIgnored ==
  /\ [][(last'.op = "data" /\ ~fromRawThrows(last'.raw)
           /\ fromRaw(last'.raw).type \notin HandledTypes)
          => /\ last'.emits = <<>>
             /\ last'.writes = <<>>
             /\ ~sockets'[last'.sock].destroyed
             /\ UNCHANGED <<peers, connections, server, sockets>>]_vars
  /\ []((last.op = "data" /\ LastDecoded /\ LastMessage.type \notin HandledTypes)
          => ENABLED OnData(last.sock, asRaw(Msg(P2P_PING, <<"p">>, <<>>))))

(* C20 witness: a message of type 153, or a PONG, which has no case either,
   has been handled and the connection it came on is open. *)
C20_Witness ==
  /\ last.op = "data"
  /\ LastDecoded
  /\ LastMessage.type \in {UnknownType, P2P_PONG}
  /\ ~sockets[last.sock].destroyed
  /\ ~sockets[last.sock].ended

(* C21: a malformed frame or a transport error on one connection affects only
   that connection: every other transport, the tables and the listening socket
   are as before, and no exception leaves the handler, so that the peer goes
   on dispatching, broadcasting and accepting. *)
C21_FaultIsolation ==
  [][(last'.op = "error" \/ (last'.op = "data" /\ fromRawThrows(last'.raw)))
       => /\ Len(sockets') = Len(sockets)
          /\ \A t \in 1..Len(sockets) : t # last'.sock => sockets'[t] = sockets[t]
          /\ UNCHANGED <<connections, peers, server>>
          /\ ~last'.threw]_vars

(* C22: the handling of a received STATE_CHANGE writes no frame on any
   connection, and a STATE_CHANGE frame is written by a broadcast() call
   only. *)
C22_NoRelay ==
  /\ LastIs(P2P_STATE_CHANGE) => last.writes = <<>>
  /\ \A i \in DOMAIN last.writes :
       fromRaw(last.writes[i].raw).type = P2P_STATE_CHANGE => last.op = "broadcast"

(* C22 witness: a STATE_CHANGE with a valid payload was received and emitted
   as changes while another connection of the table was open to be written
   to. *)
C22_Witness ==
  /\ LastIs(P2P_STATE_CHANGE)
  /\ Len(last.emits) = 1
  /\ \E t \in 1..Len(sockets) : t # last.sock /\ Selected(last.node, t)

(* C23: a data event writes at most one frame, and writes it on the
   connection the data arrived on; apart from such replies the peer writes only
   IDENT_REQUEST frames, when a connect completes, and STATE_CHANGE frames, in
   broadcast. *)
C23_RepliesOnSameConnection ==
  /\ last.op = "data"
       => /\ Len(last.writes) <= 1
          /\ \A i \in DOMAIN last.writes : last.writes[i].sock = last.sock
  /\ last.op = "connected"
       => \A i \in DOMAIN last.writes :
            fromRaw(last.writes[i].raw).type = P2P_IDENT_REQUEST
  /\ last.op = "broadcast"
       => \A i \in DOMAIN last.writes :
            fromRaw(last.writes[i].raw).type = P2P_STATE_CHANGE
  /\ last.op \notin {"data", "connected", "broadcast"} => last.writes = <<>>

(* C23 witness: a message that arrived on a dialed connection whose table
   entry now holds another, open, connection was answered on the dialed one. *)
C23_Witness ==
  /\ last.op = "data"
  /\ Len(last.writes) = 1
  /\ sockets[last.sock].initiator
  /\ connections[last.node][last.address] # last.sock
  /\ Selected(last.node, connections[last.node][last.address])

(* the reply to an INSTRUCTION that asks node n to sign token *)
SignReply(n, token) ==
  fromVector(<<P2P_INSTRUCTION, Hex(Sign(n, token)) \o <<" ">> \o CHECKSIG>>)

(* C24 as stated: an INSTRUCTION whose payload is two space-delimited tokens
   with SIGN as the second yields exactly one reply, an INSTRUCTION carrying the
   hex signature of the first token and the token CHECKSIG; every other
   payload yields no reply; no INSTRUCTION emits an event or closes the
   connection. *)
C24_SignForTwoTokensOnly ==
  LastIs(P2P_INSTRUCTION)
    => LET stack == Split(LastMessage.data, " ")
       IN /\ last.writes =
               IF Len(stack) = 2 /\ stack[2] = SIGN
               THEN <<Write(last.sock, asRaw(SignReply(last.node, stack[1])))>>
               ELSE <<>>
          /\ last.emits = <<>>
          /\ ~sockets[last.sock].destroyed

(* C24 amended: an INSTRUCTION whose second space-delimited token is SIGN,
   whatever tokens follow it, yields exactly one reply, an INSTRUCTION
   carrying the hex signature of the first token and the token CHECKSIG, on
   the connection it arrived on; every other payload yields no reply; no
   INSTRUCTION emits an event or closes the connection. *)
C24_SignForSecondTokenSIGN ==
  LastIs(P2P_INSTRUCTION)
    => LET stack == Split(LastMessage.data, " ")
       IN /\ last.writes =
               IF Len(stack) >= 2 /\ stack[2] = SIGN
               THEN <<Write(last.sock, asRaw(SignReply(last.node, stack[1])))>>
               ELSE <<>>
          /\ last.emits = <<>>
          /\ ~sockets[last.sock].destroyed

(* C24 witness: the payload "m SIGN z", of three tokens, was answered with a
   signature of "m". *)
C24_Witness ==
  /\ LastIs(P2P_INSTRUCTION)
  /\ Len(Split(LastMessage.data, " ")) = 3
  /\ last.writes = <<Write(last.sock, asRaw(SignReply(last.node, <<"m">>)))>>

(* a dialed transport that has had a transport error *)
DialFailed(s) == sockets[s].initiator /\ sockets[s].hadError

(* what holds of every step after the dial of socket s failed, whatever the
   table holds for its address: the key stays, the transport stays as it is,
   nothing is written on it, its connect never completes, and a dial of its
   address makes no transport, emits nothing and writes nothing *)
NeverRedialed(s) ==
  LET n == sockets[s].owner
      a == sockets[s].address
  IN /\ a \in DOMAIN connections'[n]
     /\ sockets'[s] = sockets[s]
     /\ \A i \in DOMAIN last'.writes : last'.writes[i].sock # s
     /\ ~(last'.op = "connected" /\ last'.sock = s)
     /\ (last'.op = "connect" /\ last'.node = n /\ last'.address = a)
          => /\ Len(sockets') = Len(sockets)
             /\ UNCHANGED connections
             /\ last'.emits = <<>>
             /\ last'.writes = <<>>
             /\ last'.ret = connections[n][a]

(* C25 as stated: after a dial failed with a transport error the errored
   entry stays the table's entry for the address, every later dial of the
   address returns it and starts no connect, no connection event occurs for
   the address and nothing is ever written on it. *)
C25_ErroredEntryStays ==
  [][\A s \in 1..Len(sockets) :
       DialFailed(s)
         => /\ NeverRedialed(s)
            /\ connections'[sockets[s].owner][sockets[s].address] = s
            /\ (last'.op = "connect" /\ last'.node = sockets[s].owner
                  /\ last'.address = sockets[s].address) => last'.ret = s
            /\ \A i \in DOMAIN last'.emits :
                 last'.emits[i].name = "connection"
                   => last'.emits[i].arg.address # sockets[s].address]_vars

(* C25 amended: after a dial failed with a transport error the address stays
   a key of the table, every later dial of it returns the table's entry and
   starts no connect, the errored transport never completes a connect and
   nothing is ever written on it; the entry is the errored transport for as
   long as no transport accepted from the same address has replaced it. *)
C25_NeverRedialed ==
  [][\A s \in 1..Len(sockets) :
       DialFailed(s)
         => /\ NeverRedialed(s)
            /\ (connections[sockets[s].owner][sockets[s].address] = s
                  /\ last'.op # "accept")
                 => connections'[sockets[s].owner][sockets[s].address] = s]_vars

(* C25 witness: a dial of an address whose earlier dial had failed returned
   the errored entry. *)
C25_Witness ==
  /\ last.op = "connect"
  /\ last.ret # NoSocket
  /\ DialFailed(last.ret)
  /\ last.sock = NoSocket

(* C26: listening is not resumed after stop(): when stop() has run with the
   server handle set, the next thing the peer does is neither a ready event
   nor the acceptance of a transport, and a start() changes nothing; a server
   that is closed stays closed, emits no ready and accepts nothing, whatever
   is called. *)
C26_NoListeningAfterStop ==
  [][/\ (last.op = "stop" /\ ~last.threw /\ last'.node = last.node)
          => /\ last'.op \notin {"ready", "accept"}
             /\ last'.op = "start" => UNCHANGED server
     /\ \A n \in Nodes :
          server[n].state = "closed"
            => /\ server'[n] = server[n]
               /\ ~(last'.op \in {"ready", "accept"} /\ last'.node = n)]_vars

(* a connection that reached end-of-stream or was destroyed, with no
   transport error *)
Dead(s) == (sockets[s].ended \/ sockets[s].destroyed) /\ ~sockets[s].hadError

(* the broadcast of this step wrote exactly one frame on s *)
BroadcastWrote(s) == Cardinality({i \in DOMAIN last'.writes : last'.writes[i].sock = s}) = 1

(* C27 as stated: a dead connection of the table stays in the table and
   every later broadcast writes a frame on it. *)
C27_DeadStaysInTable ==
  [][\A s \in 1..Len(sockets) :
       (Dead(s) /\ InTable(sockets[s].owner, s))
         => /\ connections'[sockets[s].owner][sockets[s].address] = s
            /\ (last'.op = "broadcast" /\ last'.node = sockets[s].owner)
                 => BroadcastWrote(s)]_vars

(* C27 amended: a dead connection of the table stays the table's entry for
   its address until a transport accepted from the same address replaces it,
   and every broadcast made while it is in the table writes one frame on
   it. *)
C27_DeadStillSelected ==
  [][\A s \in 1..Len(sockets) :
       (Dead(s) /\ InTable(sockets[s].owner, s))
         => /\ last'.op # "accept"
                 => connections'[sockets[s].owner][sockets[s].address] = s
            /\ sockets[s].address \in DOMAIN connections'[sockets[s].owner]
            /\ (last'.op = "broadcast" /\ last'.node = sockets[s].owner)
                 => BroadcastWrote(s)]_vars

(* C27 witness: a broadcast wrote on a connection destroyed after a decode
   failure and on a connection that had reached end-of-stream. *)
C27_Witness ==
  /\ last.op = "broadcast"
  /\ \E s, t \in 1..Len(sockets) :
       /\ sockets[s].destroyed /\ ~sockets[s].hadError /\ WritesTo(s) # {}
       /\ sockets[t].ended /\ ~sockets[t].destroyed /\ WritesTo(t) # {}

(* socket s is one end of a link whose two ends belong to the same peer; it
   is read in the state before the step *)
SelfLinked(s) ==
  /\ s \in DOMAIN wire
  /\ wire[s].peer # NoSocket
  /\ sockets[wire[s].peer].owner = sockets[s].owner

(* C28: a peer that dials its own listening address is not stopped anywhere:
   the connect completes with the handshake connection event and the
   IDENT_REQUEST; on the link to itself the peer answers that IDENT_REQUEST
   with its own id, registers its own id on the IDENT_RESPONSE and emits a peer
   event carrying it, and emits as changes the payload of its own broadcast;
   both ends of the link are entries of its connection table, under two
   keys. *)
C28_SelfConnectionUndetected ==
  [][/\ (last'.op = "connected"
           /\ last'.address = ListenAddress(last'.node))
          => /\ last'.emits = <<Event("connection",
                                     [address |-> last'.address, status |-> "handshake",
                                      initiator |-> TRUE])>>
             /\ last'.writes = <<Write(last'.sock,
                                      asRaw(fromVector(<<P2P_IDENT_REQUEST,
                                                          Id(last'.node)>>)))>>
     /\ (last'.op = "data" /\ SelfLinked(last'.sock))
          => LET n == last'.node
                 m == fromRaw(last'.raw)
             IN /\ m.type = P2P_IDENT_REQUEST
                     => last'.writes = <<Write(last'.sock,
                                              asRaw(fromVector(<<P2P_IDENT_RESPONSE, Id(n)>>)))>>
                /\ (m.type = P2P_IDENT_RESPONSE /\ Id(n) \notin DOMAIN peers[n])
                     => /\ m.data = Id(n)
                        /\ peers'[n] = (Id(n) :> [id |-> Id(n)]) @@ peers[n]
                        /\ last'.emits = <<Event("peer", [id |-> Id(n)])>>
                /\ m.type = P2P_STATE_CHANGE
                     => last'.emits = <<Event("changes", [value |-> JSONParse(m.data).value])>>
     /\ \A s \in 1..Len(sockets) :
          SelfLinked(s)
            => /\ connections'[sockets[s].owner][sockets[s].address] = s
               /\ sockets[wire[s].peer].address # sockets[s].address
               /\ (last'.op = "broadcast" /\ last'.node = sockets[s].owner
                     /\ ~sockets[s].connecting)
                    => \E i \in DOMAIN last'.writes : last'.writes[i].sock = s]_vars

(* C28 witness: peer A, linked to itself, holds its own id in its peers table
   and has just emitted as changes a payload it had broadcast. *)
C28_Witness ==
  /\ last.op = "data"
  /\ last.node = "A"
  /\ SelfLinked(last.sock)
  /\ LastMessage.type = P2P_STATE_CHANGE
  /\ Len(last.emits) = 1
  /\ Id("A") \in DOMAIN peers["A"]
  /\ Cardinality(DOMAIN connections["A"]) = 2

====
